---- MODULE Spec2Model ----
(***************************************************************************)
(* State-machine model of binance_trade_bot/binance_stream_manager.py:     *)
(* ThreadSafeAsyncLock, BinanceCache's balance scopes, OrderGuard and the  *)
(* BinanceStreamManager dispatch loop with its reconnect reconciliation.   *)
(***************************************************************************)
EXTENDS Integers, Sequences, FiniteSets, TLC

\* ------------------------------------------------------------------ bounds
NumThreads == 2     \* threads using the blocking interface of the balance lock
NumTasks == 2       \* coroutines using the cooperative interface on the loop
MaxAttach == 2      \* calls of attach_loop the environment may make
NumCallers == 2     \* threads placing orders through acquire_order_guard
MaxSignals == 1     \* signals the transport produces
MaxData == 2        \* data items the transport produces
MaxFailures == 2    \* caught get_order failures in a row for one tag

None == "None"

ThreadIds == <<"t1", "t2", "t3", "t4">>
TaskIds == <<"a1", "a2", "a3", "a4">>
Threads == {ThreadIds[i] : i \in 1..NumThreads}
Tasks == {TaskIds[i] : i \in 1..NumTasks}
CallerIds == <<"c1", "c2", "c3", "c4">>
Callers == {CallerIds[i] : i \in 1..NumCallers}
Processor == "processor"    \* BinanceStreamManager._processorThread
LockUsers == Threads \cup Tasks \cup {Processor}

VARIABLES
    init_lock,      \* ThreadSafeAsyncLock._init_lock: None (unlocked) or who locked it
    async_lock,     \* ThreadSafeAsyncLock._async_lock: None, "unlocked", or who locked it
    attach_calls,   \* number of attach_loop calls made so far
    apc,            \* position of the running attach_loop call on the loop thread
    pc,             \* position of each lock user in its open_balances[_async] scope
    exc,            \* exc_type the user's last scope body ended with
    pending_orders,         \* BinanceStreamManager.pending_orders
    pending_orders_mutex,   \* BinanceStreamManager.pending_orders_mutex: None or who locked it
    gpc,            \* position of each order-placing caller in its OrderGuard protocol
    tag,            \* OrderGuard.tag of the caller's current guard
    stopping,       \* bw_api_manager.is_manager_stopping()
    signal_buffer,  \* the transport's stream signal buffer (FIFO)
    data_buffer,    \* the transport's stream data buffer (FIFO)
    n_signals,      \* signals the transport has produced so far
    n_data,         \* data items the transport has produced so far
    lpc,            \* position of _stream_processor
    stream_signal,  \* _stream_processor's local stream_signal
    stream_data,    \* _stream_processor's local stream_data
    fetch_todo,     \* _fetch_pending_orders: tags of the copy not yet iterated
    fetch_cur,      \* _fetch_pending_orders: the (symbol, order_id) being fetched
    order,          \* _fetch_pending_orders: local order
    queries,        \* get_order calls made for fetch_cur
    failures,       \* get_order calls for fetch_cur that raised a caught exception
    balances,       \* BinanceCache._balances
    orders,         \* BinanceCache.orders
    ticker_values,      \* BinanceCache.ticker_values
    ticker_values_ask,  \* BinanceCache.ticker_values_ask
    ticker_values_bid,  \* BinanceCache.ticker_values_bid
    processed       \* balance writes applied since the balance cache was last empty

lockVars == <<init_lock, async_lock, attach_calls, apc, pc, exc>>
guardVars == <<pending_orders, pending_orders_mutex, gpc, tag>>
transportVars == <<stopping, signal_buffer, data_buffer, n_signals, n_data>>
fetchVars == <<fetch_todo, fetch_cur, order, queries, failures>>
cacheVars == <<balances, orders, ticker_values, ticker_values_ask, ticker_values_bid, processed>>
loopVars == <<transportVars, lpc, stream_signal, stream_data, fetchVars, cacheVars>>
vars == <<lockVars, guardVars, loopVars>>

\* The event loop runs one callback at a time; attach_loop is synchronous code
\* on the loop thread, so while it runs (or blocks on _init_lock) no coroutine
\* scheduled on the loop makes progress.
LoopFree == apc = "idle"

\* ------------------------------------------------- ThreadSafeAsyncLock.attach_loop
AttachCall ==
    /\ apc = "idle"
    /\ attach_calls < MaxAttach
    /\ apc' = "waiting"
    /\ attach_calls' = attach_calls + 1
    /\ UNCHANGED <<init_lock, async_lock, pc, exc>>
    /\ UNCHANGED <<guardVars, loopVars>>

\* AttachAcquire as it would be if attach_loop did not take _init_lock
AttachAcquire_NoLock ==
    /\ apc = "waiting"
    /\ apc' = "locked"
    /\ UNCHANGED <<init_lock, async_lock, attach_calls, pc, exc>>
    /\ UNCHANGED <<guardVars, loopVars>>

\* with self._init_lock:
AttachAcquire ==
    /\ apc = "waiting"
    /\ init_lock = None
    /\ init_lock' = "attach"
    /\ apc' = "locked"
    /\ UNCHANGED <<async_lock, attach_calls, pc, exc>>
    /\ UNCHANGED <<guardVars, loopVars>>

\* self._async_lock = asyncio.Lock(): a fresh, unlocked lock replaces the old
\* object.  A coroutine suspended in the old object's acquire() waits on an
\* object nothing references any more.
AttachSet ==
    /\ apc = "locked"
    /\ async_lock' = "unlocked"
    /\ pc' = [p \in LockUsers |->
                IF p \in Tasks /\ pc[p] \in {"await_async", "reawait"}
                  THEN "orphaned" ELSE pc[p]]
    /\ apc' = "assigned"
    /\ UNCHANGED <<init_lock, attach_calls, exc>>
    /\ UNCHANGED <<guardVars, loopVars>>

AttachRelease ==
    /\ apc = "assigned"
    /\ init_lock' = None
    /\ apc' = "idle"
    /\ UNCHANGED <<async_lock, attach_calls, pc, exc>>
    /\ UNCHANGED <<guardVars, loopVars>>

\* The body of a scope acquires the lock again, through the interface it holds
\* it by (acquire() / `with` for a thread, `async with` for a coroutine).
ReAcquire(p) ==
    /\ pc[p] = "cs"
    /\ p \in Tasks => LoopFree
    /\ pc' = [pc EXCEPT ![p] = "reenter"]
    /\ UNCHANGED <<init_lock, async_lock, attach_calls, apc, exc>>
    /\ UNCHANGED <<guardVars, loopVars>>

\* ------------------------------------ blocking facet: __enter__ / __exit__
\* EnterInit as it would be if _init_lock were a threading.RLock
EnterInit_Reentrant(p) ==
    /\ pc[p] \in {"idle", "reenter"}
    /\ p = Processor => lpc \in {"invalidate", "balance"}
    /\ init_lock \in {None, p}
    /\ init_lock' = p
    /\ pc' = [pc EXCEPT ![p] = IF pc[p] = "idle" THEN "entered_init" ELSE "nested"]
    /\ UNCHANGED <<async_lock, attach_calls, apc, exc>>
    /\ UNCHANGED <<guardVars, loopVars>>

\* self._init_lock.__enter__() returns.  "nested" is the position of a holder
\* whose second acquisition got past its first lock.
EnterInit(p) ==
    /\ pc[p] \in {"idle", "reenter"}
    /\ p = Processor => lpc \in {"invalidate", "balance"}
    /\ init_lock = None
    /\ init_lock' = p
    /\ pc' = [pc EXCEPT ![p] = IF pc[p] = "idle" THEN "entered_init" ELSE "nested"]
    /\ UNCHANGED <<async_lock, attach_calls, apc, exc>>
    /\ UNCHANGED <<guardVars, loopVars>>

\* EnterSubmit as it would be if __enter__ never took the asyncio lock
EnterSubmit_SkipAsync(p) ==
    /\ pc[p] = "entered_init"
    /\ pc' = [pc EXCEPT ![p] = "cs"]
    /\ UNCHANGED <<init_lock, async_lock, attach_calls, apc, exc>>
    /\ UNCHANGED <<guardVars, loopVars>>

\* if self._async_lock is not None: run_coroutine_threadsafe(__aenter__(), loop)
EnterSubmit(p) ==
    /\ pc[p] = "entered_init"
    /\ pc' = [pc EXCEPT ![p] = IF async_lock = None THEN "cs" ELSE "await_async"]
    /\ UNCHANGED <<init_lock, async_lock, attach_calls, apc, exc>>
    /\ UNCHANGED <<guardVars, loopVars>>

\* the loop runs the submitted asyncio.Lock.__aenter__ and .result() returns
EnterAsync(p) ==
    /\ pc[p] = "await_async"
    /\ LoopFree
    /\ async_lock = "unlocked"
    /\ async_lock' = p
    /\ pc' = [pc EXCEPT ![p] = "cs"]
    /\ UNCHANGED <<init_lock, attach_calls, apc, exc>>
    /\ UNCHANGED <<guardVars, loopVars>>

\* the body of `with cache.open_balances():` returns or raises
Body(p) ==
    /\ pc[p] = "cs"
    /\ \E e \in {None, "Exception"} : exc' = [exc EXCEPT ![p] = e]
    /\ pc' = [pc EXCEPT ![p] = "exit"]
    /\ UNCHANGED <<init_lock, async_lock, attach_calls, apc>>
    /\ UNCHANGED <<guardVars, loopVars>>

\* __exit__, first half: release the asyncio lock through the loop.
\* asyncio.Lock.release() on an unlocked lock raises RuntimeError, which
\* .result() re-raises in the thread before _init_lock.__exit__ is reached.
ExitAsync(p) ==
    /\ pc[p] = "exit"
    /\ IF async_lock = None
         THEN /\ pc' = [pc EXCEPT ![p] = "exit_init"]
              /\ UNCHANGED async_lock
         ELSE /\ LoopFree
              /\ IF async_lock = "unlocked"
                   THEN /\ pc' = [pc EXCEPT ![p] = "release_error"]
                        /\ UNCHANGED async_lock
                   ELSE /\ async_lock' = "unlocked"
                        /\ pc' = [pc EXCEPT ![p] = "exit_init"]
    /\ UNCHANGED <<init_lock, attach_calls, apc, exc>>
    /\ UNCHANGED <<guardVars, loopVars>>

\* ExitInit as it would be if the lock were released on a normal return only
ExitInit_KeepOnException(p) ==
    /\ pc[p] = "exit_init"
    /\ init_lock' = IF exc[p] = None THEN None ELSE init_lock
    /\ pc' = [pc EXCEPT ![p] = "idle"]
    /\ UNCHANGED <<async_lock, attach_calls, apc, exc>>
    /\ UNCHANGED <<guardVars, loopVars>>

\* __exit__, second half: self._init_lock.__exit__(...)
ExitInit(p) ==
    /\ pc[p] = "exit_init"
    /\ init_lock' = None
    /\ pc' = [pc EXCEPT ![p] = "idle"]
    /\ UNCHANGED <<async_lock, attach_calls, apc, exc>>
    /\ UNCHANGED <<guardVars, loopVars>>

\* -------------------------------- cooperative facet: __aenter__ / __aexit__
\* await self._async_lock.__aenter__(): AttributeError before attachment;
\* asyncio.Lock.acquire takes an unlocked lock at once and suspends otherwise.
AEnter(a) ==
    /\ pc[a] \in {"idle", "reenter"}
    /\ LoopFree
    /\ IF async_lock = None
         THEN /\ exc' = [exc EXCEPT ![a] = "AttributeError"]
              /\ UNCHANGED <<async_lock, pc>>
         ELSE IF async_lock = "unlocked"
                THEN /\ async_lock' = a
                     /\ pc' = [pc EXCEPT ![a] = IF pc[a] = "idle" THEN "cs" ELSE "nested"]
                     /\ UNCHANGED exc
                ELSE /\ pc' = [pc EXCEPT ![a] =
                                 IF pc[a] = "idle" THEN "await_async" ELSE "reawait"]
                     /\ UNCHANGED <<async_lock, exc>>
    /\ UNCHANGED <<init_lock, attach_calls, apc>>
    /\ UNCHANGED <<guardVars, loopVars>>

\* a suspended acquire() is woken once the lock it waits on is released
AWake(a) ==
    /\ pc[a] \in {"await_async", "reawait"}
    /\ LoopFree
    /\ async_lock = "unlocked"
    /\ async_lock' = a
    /\ pc' = [pc EXCEPT ![a] = IF pc[a] = "await_async" THEN "cs" ELSE "nested"]
    /\ UNCHANGED <<init_lock, attach_calls, apc, exc>>
    /\ UNCHANGED <<guardVars, loopVars>>

\* the body of `async with cache.open_balances_async():` returns or raises
ABody(a) ==
    /\ pc[a] = "cs"
    /\ LoopFree
    /\ \E e \in {None, "Exception"} : exc' = [exc EXCEPT ![a] = e]
    /\ pc' = [pc EXCEPT ![a] = "exit"]
    /\ UNCHANGED <<init_lock, async_lock, attach_calls, apc>>
    /\ UNCHANGED <<guardVars, loopVars>>

\* await self._async_lock.__aexit__(...): release whatever lock object the
\* attribute names now (RuntimeError when that one is not locked)
AExit(a) ==
    /\ pc[a] = "exit"
    /\ LoopFree
    /\ IF async_lock = "unlocked"
         THEN /\ exc' = [exc EXCEPT ![a] = "RuntimeError"]
              /\ UNCHANGED async_lock
         ELSE /\ async_lock' = "unlocked"
              /\ UNCHANGED exc
    /\ pc' = [pc EXCEPT ![a] = "idle"]
    /\ UNCHANGED <<init_lock, attach_calls, apc>>
    /\ UNCHANGED <<guardVars, loopVars>>

\* ------------------------------------------------------------- OrderGuard
NoTag == <<>>       \* OrderGuard.tag = None

\* The (origin_symbol, target_symbol, order_id) triples callers pass to set_order.
SetOrderArgs == {<<"BTC", "USDT", 42>>, <<"ETH", "USDT", 43>>}

\* The triple of the order a caller places when every caller trades one pair.
OwnOrderArgs(c) ==
    IF c \in {CallerIds[1], CallerIds[3]} THEN <<"BTC", "USDT", 42>>
    ELSE <<"ETH", "USDT", 43>>

\* The triple of the order a caller places when the first two callers track
\* the same order.
TwinOrderArgs(c) ==
    IF c \in {CallerIds[1], CallerIds[2]} THEN <<"BTC", "USDT", 42>>
    ELSE <<"ETH", "USDT", 43>>

\* set_order: self.tag = (origin_symbol + target_symbol, order_id)
MakeTag(origin_symbol, target_symbol, order_id) ==
    <<origin_symbol \o target_symbol, order_id>>

\* a caller is outside any guard protocol and may start one
GuardIdle(c) == gpc[c] \in {"idle", "exited", "raised", "enter_failed", "exit_failed"}

\* acquire_order_guard() is called: OrderGuard.__init__ starts and reaches
\* self.mutex.acquire()
CallAcquireOrderGuard(c) ==
    /\ GuardIdle(c)
    /\ gpc' = [gpc EXCEPT ![c] = "acquiring"]
    /\ UNCHANGED <<pending_orders, pending_orders_mutex, tag, lockVars, loopVars>>

\* AcquireOrderGuard as it would be if the constructor did not wait for the mutex
AcquireOrderGuard_NoWait(c) ==
    /\ gpc[c] = "acquiring"
    /\ pending_orders_mutex' = c
    /\ tag' = [tag EXCEPT ![c] = NoTag]
    /\ gpc' = [gpc EXCEPT ![c] = "created"]
    /\ UNCHANGED <<pending_orders, lockVars, loopVars>>

\* OrderGuard.__init__: self.mutex.acquire() returns; self.tag = None
AcquireOrderGuard(c) ==
    /\ gpc[c] = "acquiring"
    /\ pending_orders_mutex = None
    /\ pending_orders_mutex' = c
    /\ tag' = [tag EXCEPT ![c] = NoTag]
    /\ gpc' = [gpc EXCEPT ![c] = "created"]
    /\ UNCHANGED <<pending_orders, lockVars, loopVars>>

\* OrderGuard.set_order(a[1], a[2], a[3]), called between construction and
\* scope entry
SetOrder(c, a) ==
    /\ gpc[c] = "created"
    /\ tag' = [tag EXCEPT ![c] = MakeTag(a[1], a[2], a[3])]
    /\ UNCHANGED <<pending_orders, pending_orders_mutex, gpc, lockVars, loopVars>>

\* The caller leaves without ever entering the guard's scope (for instance the
\* order placement between acquire_order_guard() and `with guard:` raised).
Abandon(c) ==
    /\ gpc[c] = "created"
    /\ gpc' = [gpc EXCEPT ![c] = "abandoned"]
    /\ UNCHANGED <<pending_orders, pending_orders_mutex, tag, lockVars, loopVars>>

\* GuardEnterTry as it would be without the check of self.tag
GuardEnterTry_NoCheck(c) ==
    /\ gpc[c] = "created"
    /\ pending_orders' = pending_orders \cup {tag[c]}
    /\ gpc' = [gpc EXCEPT ![c] = "enter_added"]
    /\ UNCHANGED <<pending_orders_mutex, tag, lockVars, loopVars>>

\* GuardEnterTry as it would be if __enter__ released the mutex first
GuardEnterTry_ReleaseFirst(c) ==
    /\ gpc[c] = "created"
    /\ pending_orders_mutex' = None
    /\ IF tag[c] = NoTag
         THEN /\ gpc' = [gpc EXCEPT ![c] = "enter_raising"]
              /\ UNCHANGED pending_orders
         ELSE /\ pending_orders' = pending_orders \cup {tag[c]}
              /\ gpc' = [gpc EXCEPT ![c] = "enter_added"]
    /\ UNCHANGED <<tag, lockVars, loopVars>>

\* OrderGuard.__enter__, the try block: raise when no tag was set, else add it
GuardEnterTry(c) ==
    /\ gpc[c] = "created"
    /\ IF tag[c] = NoTag
         THEN /\ gpc' = [gpc EXCEPT ![c] = "enter_raising"]
              /\ UNCHANGED pending_orders
         ELSE /\ pending_orders' = pending_orders \cup {tag[c]}
              /\ gpc' = [gpc EXCEPT ![c] = "enter_added"]
    /\ UNCHANGED <<pending_orders_mutex, tag, lockVars, loopVars>>

\* GuardEnterFinally as it would be if the mutex were released after the add
\* only, not in a finally block
GuardEnterFinally_SkipOnFailure(c) ==
    /\ gpc[c] \in {"enter_raising", "enter_added"}
    /\ pending_orders_mutex' = IF gpc[c] = "enter_raising" THEN pending_orders_mutex ELSE None
    /\ gpc' = [gpc EXCEPT ![c] =
                 IF gpc[c] = "enter_raising" THEN "enter_failed" ELSE "in_scope"]
    /\ UNCHANGED <<pending_orders, tag, lockVars, loopVars>>

\* OrderGuard.__enter__, the finally block: self.mutex.release().  When the try
\* block raised, the exception leaves `with` and neither body nor __exit__ run.
GuardEnterFinally(c) ==
    /\ gpc[c] \in {"enter_raising", "enter_added"}
    /\ pending_orders_mutex' = None
    /\ gpc' = [gpc EXCEPT ![c] =
                 IF gpc[c] = "enter_raising" THEN "enter_failed" ELSE "in_scope"]
    /\ UNCHANGED <<pending_orders, tag, lockVars, loopVars>>

\* GuardExit as it would be if __exit__ removed the tag on a normal return only
GuardExit_KeepOnException(c) ==
    /\ gpc[c] = "in_scope"
    /\ \E e \in {None, "Exception"} :
         IF e # None
           THEN /\ gpc' = [gpc EXCEPT ![c] = "raised"]
                /\ UNCHANGED pending_orders
           ELSE IF tag[c] \in pending_orders
             THEN /\ pending_orders' = pending_orders \ {tag[c]}
                  /\ gpc' = [gpc EXCEPT ![c] = "exited"]
             ELSE /\ gpc' = [gpc EXCEPT ![c] = "exit_failed"]
                  /\ UNCHANGED pending_orders
    /\ UNCHANGED <<pending_orders_mutex, tag, lockVars, loopVars>>

\* The scope body ends (returning, or raising e) and OrderGuard.__exit__ runs:
\* self.pending_orders.remove(self.tag), a KeyError when the tag is not there.
GuardExit(c) ==
    /\ gpc[c] = "in_scope"
    /\ \E e \in {None, "Exception"} :
         IF tag[c] \in pending_orders
           THEN /\ pending_orders' = pending_orders \ {tag[c]}
                /\ gpc' = [gpc EXCEPT ![c] = IF e = None THEN "exited" ELSE "raised"]
           ELSE /\ gpc' = [gpc EXCEPT ![c] = "exit_failed"]
                /\ UNCHANGED pending_orders
    /\ UNCHANGED <<pending_orders_mutex, tag, lockVars, loopVars>>

InitGuard ==
    /\ pending_orders = {}
    /\ pending_orders_mutex = None
    /\ gpc = [c \in Callers |-> "idle"]
    /\ tag = [c \in Callers |-> NoTag]

\* ------------------------------------------------------- values on the wire
PyFalse == [py |-> "False"]     \* what a pop returns on an empty buffer
NoOrder == [py |-> "None"]      \* order = None

\* A str is modelled as [str |-> s], a float as [flt |-> n] with n the value in
\* hundredths.
Str(s) == [str |-> s]
Flt(n) == [flt |-> n]

\* The decimal strings that occur in the modelled messages, with their values.
FloatTable ==
    ("1" :> 100) @@ ("2" :> 200) @@ ("100.5" :> 10050) @@ ("0.01" :> 1)
    @@ ("300" :> 30000) @@ ("30000" :> 3000000) @@ ("30001" :> 3000100)
    @@ ("0" :> 0)

\* float(v): a float is returned as it is, a str is parsed, ValueError otherwise
Float(v) ==
    IF "flt" \in DOMAIN v THEN v
    ELSE IF v.str \in DOMAIN FloatTable THEN Flt(FloatTable[v.str])
    ELSE [exc |-> "ValueError"]

Raised(r) == "exc" \in DOMAIN r

\* d[k] = v on a dict
Put(d, k, v) == [x \in DOMAIN d \cup {k} |-> IF x = k THEN v ELSE d[x]]

\* del d[k]
Del(d, k) == [x \in DOMAIN d \ {k} |-> d[x]]

EmptyDict == <<>>

\* BinanceOrder.__init__ reads these keys of the report in this order; the
\* flagged ones go through float().
ReportFields == <<
    [key |-> "symbol", float |-> FALSE],
    [key |-> "side", float |-> FALSE],
    [key |-> "order_type", float |-> FALSE],
    [key |-> "order_id", float |-> FALSE],
    [key |-> "cumulative_quote_asset_transacted_quantity", float |-> TRUE],
    [key |-> "current_order_status", float |-> FALSE],
    [key |-> "order_price", float |-> TRUE],
    [key |-> "transaction_time", float |-> FALSE],
    [key |-> "cumulative_filled_quantity", float |-> TRUE] >>

\* the exception the i-th read of BinanceOrder.__init__ raises, or None
ReportFieldError(report, i) ==
    LET f == ReportFields[i] IN
    IF f.key \notin DOMAIN report THEN "KeyError"
    ELSE IF f.float /\ Raised(Float(report[f.key])) THEN "ValueError"
    ELSE None

\* BinanceOrder(report): the order, or the first exception its reads raise
BinanceOrder(report) ==
    LET bad == {i \in DOMAIN ReportFields : ReportFieldError(report, i) # None} IN
    IF bad # {}
      THEN [exc |-> ReportFieldError(report, CHOOSE i \in bad : \A j \in bad : i <= j)]
      ELSE [symbol |-> report.symbol,
            side |-> report.side,
            order_type |-> report.order_type,
            id |-> report.order_id,
            cumulative_quote_qty |->
                Float(report.cumulative_quote_asset_transacted_quantity),
            status |-> report.current_order_status,
            price |-> Float(report.order_price),
            time |-> report.transaction_time,
            cumulative_filled_quantity |-> Float(report.cumulative_filled_quantity)]

\* _fetch_pending_orders reads these keys of the get_order response in this
\* order to build fake_report; the flagged ones go through float().
ResponseFields == <<
    [key |-> "symbol", to |-> "symbol", float |-> FALSE],
    [key |-> "side", to |-> "side", float |-> FALSE],
    [key |-> "type", to |-> "order_type", float |-> FALSE],
    [key |-> "orderId", to |-> "order_id", float |-> FALSE],
    [key |-> "cummulativeQuoteQty",
     to |-> "cumulative_quote_asset_transacted_quantity", float |-> TRUE],
    [key |-> "executedQty", to |-> "cumulative_filled_quantity", float |-> TRUE],
    [key |-> "status", to |-> "current_order_status", float |-> FALSE],
    [key |-> "price", to |-> "order_price", float |-> TRUE],
    [key |-> "time", to |-> "transaction_time", float |-> FALSE] >>

ResponseFieldError(resp, i) ==
    LET f == ResponseFields[i] IN
    IF f.key \notin DOMAIN resp THEN "KeyError"
    ELSE IF f.float /\ Raised(Float(resp[f.key])) THEN "ValueError"
    ELSE None

\* fake_report = {...}: the report built from a get_order response, or the
\* first exception building it raises
FakeReport(resp) ==
    LET bad == {i \in DOMAIN ResponseFields : ResponseFieldError(resp, i) # None} IN
    IF bad # {}
      THEN [exc |-> ResponseFieldError(resp, CHOOSE i \in bad : \A j \in bad : i <= j)]
      ELSE [symbol |-> resp.symbol,
            side |-> resp.side,
            order_type |-> resp.type,
            order_id |-> resp.orderId,
            cumulative_quote_asset_transacted_quantity |-> Float(resp.cummulativeQuoteQty),
            cumulative_filled_quantity |-> Float(resp.executedQty),
            current_order_status |-> resp.status,
            order_price |-> Float(resp.price),
            transaction_time |-> resp.time]

\* for item in items: d[item[kf]] = float(item[vf])
\* Python evaluates the right-hand side first.  The result carries the dict as
\* far as the loop got, the exception that stopped it (or None), and the
\* items that were written.
RECURSIVE AssignAll(_, _, _, _)
AssignAll(d, items, kf, vf) ==
    IF items = <<>> THEN [dict |-> d, exc |-> None, written |-> <<>>]
    ELSE LET it == Head(items) IN
         IF vf \notin DOMAIN it THEN [dict |-> d, exc |-> "KeyError", written |-> <<>>]
         ELSE IF Raised(Float(it[vf]))
           THEN [dict |-> d, exc |-> "ValueError", written |-> <<>>]
         ELSE IF kf \notin DOMAIN it
           THEN [dict |-> d, exc |-> "KeyError", written |-> <<>>]
         ELSE LET rest == AssignAll(Put(d, it[kf], Float(it[vf])), Tail(items), kf, vf)
              IN  [dict |-> rest.dict, exc |-> rest.exc,
                   written |-> <<[asset |-> it[kf], free |-> Float(it[vf])]>>
                               \o rest.written]

\* -------------------------------------------------- the transport's output
\* get_stream_info(stream_id)["markets"] of the streams __init__ creates
StreamMarkets == [ticker_stream |-> <<"!miniTicker">>, user_stream |-> <<"!userData">>]

SignalPool == {
    [type |-> "CONNECT", stream_id |-> "user_stream"],
    [type |-> "CONNECT", stream_id |-> "ticker_stream"],
    [type |-> "DISCONNECT", stream_id |-> "user_stream"] }

ExecutionReports == {
    [event_type |-> "executionReport", symbol |-> "BTCUSDT", side |-> "BUY",
     order_type |-> "LIMIT", order_id |-> 42,
     cumulative_quote_asset_transacted_quantity |-> Str("300"),
     current_order_status |-> "FILLED", order_price |-> Str("30000"),
     transaction_time |-> 1000, cumulative_filled_quantity |-> Str("0.01")],
    \* a report without its price
    [event_type |-> "executionReport", symbol |-> "BTCUSDT", side |-> "BUY",
     order_type |-> "LIMIT", order_id |-> 42,
     cumulative_quote_asset_transacted_quantity |-> Str("300"),
     current_order_status |-> "FILLED",
     transaction_time |-> 1000, cumulative_filled_quantity |-> Str("0.01")] }

BalanceUpdates == {
    [event_type |-> "balanceUpdate", asset |-> "BTC", balance_delta |-> Str("1")],
    \* a delta without its asset
    [event_type |-> "balanceUpdate", balance_delta |-> Str("1")] }

Snapshots == {
    [event_type |-> "outboundAccountPosition",
     balances |-> << [asset |-> "BTC", free |-> Str("1")],
                     [asset |-> "USDT", free |-> Str("100.5")] >>],
    [event_type |-> "outboundAccountPosition",
     balances |-> << [asset |-> "BTC", free |-> Str("2")] >>],
    \* a snapshot whose second entry does not parse
    [event_type |-> "outboundAccountInfo",
     balances |-> << [asset |-> "USDT", free |-> Str("2")],
                     [asset |-> "BTC", free |-> Str("n/a")] >>] }

Tickers == {
    [event_type |-> "24hrMiniTicker",
     data |-> << [symbol |-> "BTCUSDT", close_price |-> Str("30000")],
                 [symbol |-> "ETHUSDT", close_price |-> Str("300")] >>],
    [event_type |-> "bookTicker", symbol |-> "BTCUSDT",
     best_ask_price |-> Str("30001"), best_bid_price |-> Str("30000")] }

OtherData == {
    [event_type |-> "listStatus"],      \* a kind the dispatch does not know
    [result |-> "null"] }               \* a data item without event_type

DataPool == ExecutionReports \cup BalanceUpdates \cup Snapshots \cup Tickers \cup OtherData

\* The well-formed data items that write the order, balance and ticker caches.
WrittenData == {
    [event_type |-> "executionReport", symbol |-> "BTCUSDT", side |-> "BUY",
     order_type |-> "LIMIT", order_id |-> 42,
     cumulative_quote_asset_transacted_quantity |-> Str("300"),
     current_order_status |-> "FILLED", order_price |-> Str("30000"),
     transaction_time |-> 1000, cumulative_filled_quantity |-> Str("0.01")],
    [event_type |-> "outboundAccountPosition",
     balances |-> << [asset |-> "BTC", free |-> Str("1")],
                     [asset |-> "USDT", free |-> Str("100.5")] >>],
    [event_type |-> "24hrMiniTicker",
     data |-> << [symbol |-> "BTCUSDT", close_price |-> Str("30000")],
                 [symbol |-> "ETHUSDT", close_price |-> Str("300")] >>] }

\* What binance_client.get_order(symbol, orderId) may return.
Responses(symbol, order_id) == {
    [symbol |-> symbol, side |-> "BUY", type |-> "LIMIT", orderId |-> order_id,
     cummulativeQuoteQty |-> Str("0"), executedQty |-> Str("0"),
     status |-> "NEW", price |-> Str("30000"), time |-> 900],
    \* a response without its price
    [symbol |-> symbol, side |-> "BUY", type |-> "LIMIT", orderId |-> order_id,
     cummulativeQuoteQty |-> Str("300"), executedQty |-> Str("0.01"),
     status |-> "FILLED", time |-> 1100] }

\* --------------------------------------------------------------- transport
\* the transport appends a signal to its stream signal buffer
PushSignal(s) ==
    /\ ~stopping
    /\ n_signals < MaxSignals
    /\ signal_buffer' = Append(signal_buffer, s)
    /\ n_signals' = n_signals + 1
    /\ UNCHANGED <<stopping, data_buffer, n_data, lpc, stream_signal, stream_data,
                   fetchVars, cacheVars, lockVars, guardVars>>

\* the transport appends a data item of the pool to its stream buffer
PushDataFrom(pool) ==
    /\ ~stopping
    /\ n_data < MaxData
    /\ \E d \in pool : data_buffer' = Append(data_buffer, d)
    /\ n_data' = n_data + 1
    /\ UNCHANGED <<stopping, signal_buffer, n_signals, lpc, stream_signal, stream_data,
                   fetchVars, cacheVars, lockVars, guardVars>>

PushData == PushDataFrom(DataPool)

\* BinanceStreamManager.close(): bw_api_manager.stop_manager_with_all_streams()
Close ==
    /\ ~stopping
    /\ stopping' = TRUE
    /\ UNCHANGED <<signal_buffer, data_buffer, n_signals, n_data, lpc, stream_signal,
                   stream_data, fetchVars, cacheVars, lockVars, guardVars>>

\* ------------------------------------------------------- _stream_processor
\* CheckStopping as it would be if the loop did not read the stopping flag
CheckStopping_NoCheck ==
    /\ lpc = "top"
    /\ lpc' = "pop"
    /\ UNCHANGED <<transportVars, stream_signal, stream_data, fetchVars, cacheVars,
                   lockVars, guardVars>>

\* if self.bw_api_manager.is_manager_stopping(): sys.exit()
CheckStopping ==
    /\ lpc = "top"
    /\ lpc' = IF stopping THEN "exited" ELSE "pop"
    /\ UNCHANGED <<transportVars, stream_signal, stream_data, fetchVars, cacheVars,
                   lockVars, guardVars>>

\* stream_signal = pop_stream_signal_from_stream_signal_buffer()
\* stream_data = pop_stream_data_from_stream_buffer()
\* Each pop returns False on an empty buffer.
PopBuffers ==
    /\ lpc = "pop"
    /\ IF signal_buffer = <<>>
         THEN /\ stream_signal' = PyFalse
              /\ UNCHANGED signal_buffer
         ELSE /\ stream_signal' = Head(signal_buffer)
              /\ signal_buffer' = Tail(signal_buffer)
    /\ IF data_buffer = <<>>
         THEN /\ stream_data' = PyFalse
              /\ UNCHANGED data_buffer
         ELSE /\ stream_data' = Head(data_buffer)
              /\ data_buffer' = Tail(data_buffer)
    /\ lpc' = "signal"
    /\ UNCHANGED <<stopping, n_signals, n_data, fetchVars, cacheVars, lockVars, guardVars>>

\* the signal asks for reconciliation: CONNECT of a stream with "!userData"
IsUserDataConnect(sig) ==
    /\ sig # PyFalse
    /\ sig.type = "CONNECT"
    /\ \E i \in DOMAIN StreamMarkets[sig.stream_id] :
         StreamMarkets[sig.stream_id][i] = "!userData"

\* HandleSignal as it would be if every CONNECT started the reconciliation
HandleSignal_AnyConnect ==
    /\ lpc = "signal"
    /\ lpc' = IF stream_signal # PyFalse /\ stream_signal.type = "CONNECT"
               THEN "fetch_lock" ELSE "data"
    /\ UNCHANGED <<transportVars, stream_signal, stream_data, fetchVars, cacheVars,
                   lockVars, guardVars>>

\* if stream_signal is not False: ...
HandleSignal ==
    /\ lpc = "signal"
    /\ lpc' = IF IsUserDataConnect(stream_signal) THEN "fetch_lock" ELSE "data"
    /\ UNCHANGED <<transportVars, stream_signal, stream_data, fetchVars, cacheVars,
                   lockVars, guardVars>>

\* FetchAcquire as it would be if the copy were taken without the mutex
FetchAcquire_NoWait ==
    /\ lpc = "fetch_lock"
    /\ lpc' = "fetch_copy"
    /\ UNCHANGED <<guardVars, transportVars, stream_signal, stream_data,
                   fetchVars, cacheVars, lockVars>>

\* _fetch_pending_orders: with self.pending_orders_mutex:
FetchAcquire ==
    /\ lpc = "fetch_lock"
    /\ pending_orders_mutex = None
    /\ pending_orders_mutex' = Processor
    /\ lpc' = "fetch_copy"
    /\ UNCHANGED <<pending_orders, gpc, tag, transportVars, stream_signal, stream_data,
                   fetchVars, cacheVars, lockVars>>

\* pending_orders = self.pending_orders.copy(), and the mutex is released
FetchCopy ==
    /\ lpc = "fetch_copy"
    /\ fetch_todo' = pending_orders
    /\ pending_orders_mutex' = None
    /\ lpc' = "fetch_next"
    /\ UNCHANGED <<pending_orders, gpc, tag, transportVars, stream_signal, stream_data,
                   fetch_cur, order, queries, failures, cacheVars, lockVars>>

\* FetchNext as it would be with `order = None` before the for loop, not in it
FetchNext_OrderKept ==
    /\ lpc = "fetch_next"
    /\ IF fetch_todo = {}
         THEN /\ lpc' = "invalidate"
              /\ fetch_cur' = NoTag
              /\ order' = NoOrder
              /\ UNCHANGED fetch_todo
         ELSE /\ \E t \in fetch_todo :
                   /\ fetch_cur' = t
                   /\ fetch_todo' = fetch_todo \ {t}
              /\ order' = order
              /\ lpc' = "fetch_query"
    /\ queries' = 0
    /\ failures' = 0
    /\ UNCHANGED <<transportVars, stream_signal, stream_data, cacheVars, lockVars,
                   guardVars>>

\* for (symbol, order_id) in pending_orders: order = None
FetchNext ==
    /\ lpc = "fetch_next"
    /\ IF fetch_todo = {}
         THEN /\ lpc' = "invalidate"
              /\ fetch_cur' = NoTag
              /\ UNCHANGED fetch_todo
         ELSE /\ \E t \in fetch_todo :
                   /\ fetch_cur' = t
                   /\ fetch_todo' = fetch_todo \ {t}
              /\ lpc' = "fetch_query"
    /\ order' = NoOrder
    /\ queries' = 0
    /\ failures' = 0
    /\ UNCHANGED <<transportVars, stream_signal, stream_data, cacheVars, lockVars,
                   guardVars>>

\* FetchQuery as it would be if a caught failure made the loop skip the tag
FetchQuery_GiveUp ==
    /\ lpc = "fetch_query"
    /\ queries' = queries + 1
    /\ \/ \E r \in Responses(fetch_cur[1], fetch_cur[2]) :
            /\ order' = r
            /\ lpc' = "fetch_upsert"
            /\ UNCHANGED <<failures, exc>>
       \/ /\ failures < MaxFailures
          /\ failures' = failures + 1
          /\ lpc' = "fetch_next"
          /\ UNCHANGED <<order, exc>>
       \/ /\ lpc' = "crashed"
          /\ exc' = [exc EXCEPT ![Processor] = "ConnectionError"]
          /\ UNCHANGED <<order, failures>>
    /\ UNCHANGED <<transportVars, stream_signal, stream_data, fetch_todo, fetch_cur,
                   cacheVars, init_lock, async_lock, attach_calls, apc, pc, guardVars>>

\* One pass of the while loop: get_order returns a response, raises one of the
\* two caught exceptions (logged), or raises anything else (not caught, so
\* it leaves _stream_processor).  Then `if order is not None: break`, else
\* time.sleep(1) and the next pass.
FetchQuery ==
    /\ lpc = "fetch_query"
    /\ queries' = queries + 1
    /\ \/ \E r \in Responses(fetch_cur[1], fetch_cur[2]) :
            /\ order' = r
            /\ lpc' = "fetch_upsert"
            /\ UNCHANGED <<failures, exc>>
       \/ /\ failures < MaxFailures
          /\ failures' = failures + 1
          /\ lpc' = IF order # NoOrder THEN "fetch_upsert" ELSE "fetch_query"
          /\ UNCHANGED <<order, exc>>
       \/ /\ lpc' = "crashed"
          /\ exc' = [exc EXCEPT ![Processor] = "ConnectionError"]
          /\ UNCHANGED <<order, failures>>
    /\ UNCHANGED <<transportVars, stream_signal, stream_data, fetch_todo, fetch_cur,
                   cacheVars, init_lock, async_lock, attach_calls, apc, pc, guardVars>>

\* FetchUpsert as it would be if a fetched order did not replace a cached one
FetchUpsert_KeepCached ==
    /\ lpc = "fetch_upsert"
    /\ LET report == FakeReport(order)
           o == IF Raised(report) THEN report ELSE BinanceOrder(report)
       IN  IF Raised(o)
             THEN /\ lpc' = "crashed"
                  /\ exc' = [exc EXCEPT ![Processor] = o.exc]
                  /\ UNCHANGED orders
             ELSE /\ orders' = IF report.order_id \in DOMAIN orders THEN orders
                                ELSE Put(orders, report.order_id, o)
                  /\ lpc' = "fetch_next"
                  /\ UNCHANGED exc
    /\ UNCHANGED <<transportVars, stream_signal, stream_data, fetchVars, balances,
                   ticker_values, ticker_values_ask, ticker_values_bid, processed,
                   init_lock, async_lock, attach_calls, apc, pc, guardVars>>

\* fake_report = {...}; self.cache.orders[fake_report["order_id"]] = BinanceOrder(fake_report)
FetchUpsert ==
    /\ lpc = "fetch_upsert"
    /\ LET report == FakeReport(order)
           o == IF Raised(report) THEN report ELSE BinanceOrder(report)
       IN  IF Raised(o)
             THEN /\ lpc' = "crashed"
                  /\ exc' = [exc EXCEPT ![Processor] = o.exc]
                  /\ UNCHANGED orders
             ELSE /\ orders' = Put(orders, report.order_id, o)
                  /\ lpc' = "fetch_next"
                  /\ UNCHANGED exc
    /\ UNCHANGED <<transportVars, stream_signal, stream_data, fetchVars, balances,
                   ticker_values, ticker_values_ask, ticker_values_bid, processed,
                   init_lock, async_lock, attach_calls, apc, pc, guardVars>>

\* _invalidate_balances, inside `with self.cache.open_balances()`: balances.clear()
InvalidateBalances ==
    /\ lpc = "invalidate"
    /\ pc[Processor] = "cs"
    /\ balances' = EmptyDict
    /\ processed' = <<>>
    /\ pc' = [pc EXCEPT ![Processor] = "exit"]
    /\ exc' = [exc EXCEPT ![Processor] = None]
    /\ lpc' = "data"
    /\ UNCHANGED <<transportVars, stream_signal, stream_data, fetchVars, orders,
                   ticker_values, ticker_values_ask, ticker_values_bid,
                   init_lock, async_lock, attach_calls, apc, guardVars>>

BalanceKinds == {"balanceUpdate", "outboundAccountPosition", "outboundAccountInfo"}

\* the event goes to _process_stream_data
Dispatched(d) == d # PyFalse /\ "event_type" \in DOMAIN d

\* ProcessUnlocked as it would be if an unknown event kind raised an error
ProcessUnlocked_UnknownRaises(d, c) ==
    IF d.event_type = "executionReport" THEN
        LET o == BinanceOrder(d) IN
        IF Raised(o) THEN [c EXCEPT !.exc = o.exc]
        ELSE [c EXCEPT !.orders = Put(c.orders, o.id, o)]
    ELSE IF d.event_type = "24hrMiniTicker" THEN
        IF "data" \notin DOMAIN d THEN [c EXCEPT !.exc = "KeyError"]
        ELSE LET r == AssignAll(c.ticker_values, d.data, "symbol", "close_price")
             IN  [c EXCEPT !.ticker_values = r.dict, !.exc = r.exc]
    ELSE IF d.event_type = "bookTicker" THEN
        IF "best_ask_price" \notin DOMAIN d THEN [c EXCEPT !.exc = "KeyError"]
        ELSE IF Raised(Float(d.best_ask_price)) THEN [c EXCEPT !.exc = "ValueError"]
        ELSE IF "symbol" \notin DOMAIN d THEN [c EXCEPT !.exc = "KeyError"]
        ELSE LET c1 == [c EXCEPT !.ticker_values_ask =
                            Put(c.ticker_values_ask, d.symbol, Float(d.best_ask_price))]
             IN  IF "best_bid_price" \notin DOMAIN d THEN [c1 EXCEPT !.exc = "KeyError"]
                 ELSE IF Raised(Float(d.best_bid_price))
                   THEN [c1 EXCEPT !.exc = "ValueError"]
                 ELSE [c1 EXCEPT !.ticker_values_bid =
                            Put(c.ticker_values_bid, d.symbol, Float(d.best_bid_price))]
    ELSE [c EXCEPT !.exc = "ValueError"]

\* _process_stream_data for the kinds handled without the balance lock: what
\* the caches become and the exception raised, if any
ProcessUnlocked(d, c) ==
    IF d.event_type = "executionReport" THEN
        LET o == BinanceOrder(d) IN
        IF Raised(o) THEN [c EXCEPT !.exc = o.exc]
        ELSE [c EXCEPT !.orders = Put(c.orders, o.id, o)]
    ELSE IF d.event_type = "24hrMiniTicker" THEN
        IF "data" \notin DOMAIN d THEN [c EXCEPT !.exc = "KeyError"]
        ELSE LET r == AssignAll(c.ticker_values, d.data, "symbol", "close_price")
             IN  [c EXCEPT !.ticker_values = r.dict, !.exc = r.exc]
    ELSE IF d.event_type = "bookTicker" THEN
        IF "best_ask_price" \notin DOMAIN d THEN [c EXCEPT !.exc = "KeyError"]
        ELSE IF Raised(Float(d.best_ask_price)) THEN [c EXCEPT !.exc = "ValueError"]
        ELSE IF "symbol" \notin DOMAIN d THEN [c EXCEPT !.exc = "KeyError"]
        ELSE LET c1 == [c EXCEPT !.ticker_values_ask =
                            Put(c.ticker_values_ask, d.symbol, Float(d.best_ask_price))]
             IN  IF "best_bid_price" \notin DOMAIN d THEN [c1 EXCEPT !.exc = "KeyError"]
                 ELSE IF Raised(Float(d.best_bid_price))
                   THEN [c1 EXCEPT !.exc = "ValueError"]
                 ELSE [c1 EXCEPT !.ticker_values_bid =
                            Put(c.ticker_values_bid, d.symbol, Float(d.best_bid_price))]
    ELSE c      \* self.logger.error("Unknown event type found ...")

\* ProcessBalances as it would be if a snapshot replaced the whole dict
ProcessBalances_SnapshotReplaces(d, b) ==
    IF d.event_type = "balanceUpdate" THEN
        IF "asset" \notin DOMAIN d THEN [dict |-> b, exc |-> "KeyError", applied |-> <<>>]
        ELSE [dict |-> IF d.asset \in DOMAIN b THEN Del(b, d.asset) ELSE b,
              exc |-> None,
              applied |-> <<[kind |-> "delta", asset |-> d.asset]>>]
    ELSE
        IF "balances" \notin DOMAIN d THEN [dict |-> b, exc |-> "KeyError", applied |-> <<>>]
        ELSE LET r == AssignAll(EmptyDict, d.balances, "asset", "free")
             IN  [dict |-> r.dict, exc |-> r.exc,
                  applied |-> <<[kind |-> "snapshot", balances |-> r.written]>>]

\* ProcessBalances as it would be if a delta were added to the cached balance
ProcessBalances_DeltaApplied(d, b) ==
    IF d.event_type = "balanceUpdate" THEN
        IF "asset" \notin DOMAIN d THEN [dict |-> b, exc |-> "KeyError", applied |-> <<>>]
        ELSE [dict |-> Put(b, d.asset,
                           Flt((IF d.asset \in DOMAIN b THEN b[d.asset].flt ELSE 0)
                               + Float(d.balance_delta).flt)),
              exc |-> None,
              applied |-> <<[kind |-> "delta", asset |-> d.asset]>>]
    ELSE
        IF "balances" \notin DOMAIN d THEN [dict |-> b, exc |-> "KeyError", applied |-> <<>>]
        ELSE LET r == AssignAll(b, d.balances, "asset", "free")
             IN  [dict |-> r.dict, exc |-> r.exc,
                  applied |-> <<[kind |-> "snapshot", balances |-> r.written]>>]

\* _process_stream_data inside `with self.cache.open_balances() as balances`:
\* what the balance dict becomes, the exception raised, and the write applied
ProcessBalances(d, b) ==
    IF d.event_type = "balanceUpdate" THEN
        IF "asset" \notin DOMAIN d THEN [dict |-> b, exc |-> "KeyError", applied |-> <<>>]
        ELSE [dict |-> IF d.asset \in DOMAIN b THEN Del(b, d.asset) ELSE b,
              exc |-> None,
              applied |-> <<[kind |-> "delta", asset |-> d.asset]>>]
    ELSE
        IF "balances" \notin DOMAIN d THEN [dict |-> b, exc |-> "KeyError", applied |-> <<>>]
        ELSE LET r == AssignAll(b, d.balances, "asset", "free")
             IN  [dict |-> r.dict, exc |-> r.exc,
                  applied |-> <<[kind |-> "snapshot", balances |-> r.written]>>]

\* if stream_data is not False and "event_type" in stream_data:
\*     self._process_stream_data(stream_data)
ProcessStreamData ==
    /\ lpc = "data"
    /\ pc[Processor] = "idle"
    /\ IF Dispatched(stream_data) /\ stream_data.event_type \in BalanceKinds
         THEN /\ lpc' = "balance"
              /\ UNCHANGED <<orders, ticker_values, ticker_values_ask, ticker_values_bid, exc>>
         ELSE LET c == [orders |-> orders, ticker_values |-> ticker_values,
                        ticker_values_ask |-> ticker_values_ask,
                        ticker_values_bid |-> ticker_values_bid, exc |-> None]
                  r == IF Dispatched(stream_data) THEN ProcessUnlocked(stream_data, c) ELSE c
              IN  /\ orders' = r.orders
                  /\ ticker_values' = r.ticker_values
                  /\ ticker_values_ask' = r.ticker_values_ask
                  /\ ticker_values_bid' = r.ticker_values_bid
                  /\ exc' = [exc EXCEPT ![Processor] = r.exc]
                  /\ lpc' = "end"
    /\ UNCHANGED <<transportVars, stream_signal, stream_data, fetchVars, balances,
                   processed, init_lock, async_lock, attach_calls, apc, pc, guardVars>>

\* the balance kinds, once `with self.cache.open_balances()` has been entered
ProcessBalanceData ==
    /\ lpc = "balance"
    /\ pc[Processor] = "cs"
    /\ LET r == ProcessBalances(stream_data, balances)
       IN  /\ balances' = r.dict
           /\ processed' = processed \o r.applied
           /\ exc' = [exc EXCEPT ![Processor] = r.exc]
    /\ pc' = [pc EXCEPT ![Processor] = "exit"]
    /\ lpc' = "end"
    /\ UNCHANGED <<transportVars, stream_signal, stream_data, fetchVars, orders,
                   ticker_values, ticker_values_ask, ticker_values_bid,
                   init_lock, async_lock, attach_calls, apc, guardVars>>

\* The iteration ends: an exception raised by the handler leaves the while
\* loop and ends the thread; otherwise (after time.sleep(0.01) when both pops
\* were empty) the loop starts over.
EndIteration ==
    /\ lpc = "end"
    /\ pc[Processor] = "idle"
    /\ lpc' = IF exc[Processor] # None THEN "crashed" ELSE "top"
    /\ stream_signal' = PyFalse
    /\ stream_data' = PyFalse
    /\ UNCHANGED <<transportVars, fetchVars, cacheVars, lockVars, guardVars>>

InitLoop ==
    /\ stopping = FALSE
    /\ signal_buffer = <<>>
    /\ data_buffer = <<>>
    /\ n_signals = 0
    /\ n_data = 0
    /\ lpc = "top"
    /\ stream_signal = PyFalse
    /\ stream_data = PyFalse
    /\ fetch_todo = {}
    /\ fetch_cur = NoTag
    /\ order = NoOrder
    /\ queries = 0
    /\ failures = 0
    /\ balances = EmptyDict
    /\ orders = EmptyDict
    /\ ticker_values = EmptyDict
    /\ ticker_values_ask = EmptyDict
    /\ ticker_values_bid = EmptyDict
    /\ processed = <<>>

\* every caller has placed its order and is inside its OrderGuard scope
InitPending ==
    /\ pending_orders = {MakeTag(OwnOrderArgs(c)[1], OwnOrderArgs(c)[2], OwnOrderArgs(c)[3]) :
                            c \in Callers}
    /\ pending_orders_mutex = None
    /\ gpc = [c \in Callers |-> "in_scope"]
    /\ tag = [c \in Callers |->
                MakeTag(OwnOrderArgs(c)[1], OwnOrderArgs(c)[2], OwnOrderArgs(c)[3])]

InitLock ==
    /\ init_lock = None
    /\ async_lock = None
    /\ attach_calls = 0
    /\ apc = "idle"
    /\ pc = [p \in LockUsers |-> "idle"]
    /\ exc = [p \in LockUsers |-> None]

NextLock ==
    \/ AttachCall
    \/ AttachAcquire
    \/ AttachSet
    \/ AttachRelease
    \/ \E p \in Threads : EnterInit(p)
    \/ \E p \in Threads : EnterSubmit(p)
    \/ \E p \in Threads : EnterAsync(p)
    \/ \E p \in Threads : Body(p)
    \/ \E p \in Threads : ExitAsync(p)
    \/ \E p \in Threads : ExitInit(p)
    \/ \E a \in Tasks : AEnter(a)
    \/ \E a \in Tasks : AWake(a)
    \/ \E a \in Tasks : ABody(a)
    \/ \E a \in Tasks : AExit(a)

Init == InitLock /\ InitGuard /\ InitLoop

\* attach_loop has been called once before the processor thread handles
\* events, or not at all
InitAttachedOrNot ==
    /\ init_lock = None
    /\ async_lock \in {None, "unlocked"}
    /\ attach_calls = IF async_lock = None THEN 0 ELSE 1
    /\ apc = "idle"
    /\ pc = [p \in LockUsers |-> "idle"]
    /\ exc = [p \in LockUsers |-> None]

\* users of the balance lock and the loop's attach_loop
SpecLock == Init /\ [][NextLock]_vars

\* attach_loop is called as the contract of the lock has it: once
AttachOnce == attach_calls = 0 /\ AttachCall

\* the steps of the users of the balance lock
NextLockUse ==
    \/ \E p \in Threads : EnterInit(p) \/ EnterSubmit(p) \/ EnterAsync(p)
    \/ \E p \in Threads : Body(p) \/ ExitAsync(p) \/ ExitInit(p)
    \/ \E a \in Tasks : AEnter(a) \/ AWake(a) \/ ABody(a) \/ AExit(a)

\* users of the balance lock whose scope bodies may acquire it again, with
\* the loop attached once at any moment
SpecReentry ==
    Init /\ [][AttachOnce \/ AttachAcquire \/ AttachSet \/ AttachRelease
               \/ NextLockUse
               \/ (\E p \in Threads \cup Tasks : ReAcquire(p))]_vars

\* the steps of an order-placing caller, but for set_order
NextCaller(c) ==
    \/ CallAcquireOrderGuard(c)
    \/ AcquireOrderGuard(c)
    \/ Abandon(c)
    \/ GuardEnterTry(c)
    \/ GuardEnterFinally(c)
    \/ GuardExit(c)

NextGuard ==
    \/ \E c \in Callers : NextCaller(c)
    \/ \E c \in Callers : \E a \in SetOrderArgs : SetOrder(c, a)

\* order-placing callers with any orders, the same one included
SpecCallers == Init /\ [][NextGuard]_vars

\* the steps of the processor thread on signals
NextProcessor ==
    \/ CheckStopping
    \/ PopBuffers
    \/ HandleSignal
    \/ FetchAcquire
    \/ FetchCopy
    \/ FetchNext
    \/ InvalidateBalances
    \/ ProcessStreamData
    \/ EndIteration
    \/ EnterInit(Processor)
    \/ EnterSubmit(Processor)
    \/ ExitAsync(Processor)
    \/ ExitInit(Processor)

UserDataConnect == [type |-> "CONNECT", stream_id |-> "user_stream"]

\* order-placing callers against the processor's reconnect reconciliation
SpecGuard ==
    Init /\ [][(\E c \in Callers : NextCaller(c) \/ SetOrder(c, OwnOrderArgs(c)))
               \/ NextProcessor \/ FetchQuery \/ FetchUpsert
               \/ PushSignal(UserDataConnect)]_vars

\* order-placing callers of which the first two track the same order, against
\* the processor's reconnect reconciliation
SpecSnapshot ==
    Init /\ [][(\E c \in Callers : NextCaller(c) \/ SetOrder(c, TwinOrderArgs(c)))
               \/ NextProcessor \/ FetchQuery \/ FetchUpsert
               \/ PushSignal(UserDataConnect)]_vars

\* the processor thread fed signals and well-formed data while orders are pending
InitReconnect == InitLock /\ InitPending /\ InitLoop

SpecReconnect ==
    /\ InitReconnect
    /\ [][NextProcessor \/ ProcessBalanceData \/ FetchQuery \/ FetchUpsert
          \/ (\E s \in SignalPool : PushSignal(s)) \/ PushDataFrom(WrittenData)
          \/ Close]_vars

\* a step of the processor thread, reconciliation included
ProcessorStep == NextProcessor \/ ProcessBalanceData \/ FetchQuery \/ FetchUpsert

\* The processor thread, kept running by the scheduler, while orders are
\* pending, the user-data stream reconnects, well-formed data arrive and
\* close() may be called.  get_order raises its caught exceptions at most
\* MaxFailures times in a row, so every reconciliation comes to an end.
SpecStop ==
    /\ InitReconnect
    /\ [][ProcessorStep \/ PushSignal(UserDataConnect) \/ PushDataFrom(WrittenData)
          \/ Close]_vars
    /\ WF_vars(ProcessorStep)

\* the processor thread fed by the transport, with or without a loop attached
InitDispatch == InitAttachedOrNot /\ InitGuard /\ InitLoop

SpecDispatch ==
    /\ InitDispatch
    /\ [][NextProcessor \/ EnterAsync(Processor) \/ ProcessBalanceData
          \/ (\E s \in SignalPool : PushSignal(s)) \/ PushData \/ Close]_vars

Next ==
    \/ NextLock \/ NextGuard \/ NextProcessor
    \/ EnterAsync(Processor) \/ ProcessBalanceData \/ FetchQuery \/ FetchUpsert
    \/ (\E s \in SignalPool : PushSignal(s)) \/ PushData \/ Close

Spec == Init /\ [][Next]_vars

\* ================================================================== claims
InCS == {p \in LockUsers : pc[p] = "cs"}

\* C1: with attach_loop called at most once, at most one holder, blocking or
\* cooperative, is inside the critical section of the balance lock
C1_MutualExclusion == attach_calls <= 1 => Cardinality(InCS) <= 1

\* a thread is inside the section after attachment while a coroutine waits
C1_Witness ==
    /\ attach_calls = 1
    /\ \E t \in Threads : pc[t] = "cs" /\ init_lock = t /\ async_lock = t
    /\ \E a \in Tasks : pc[a] = "await_async"

\* C2: with attach_loop called at most once, each facet of the balance lock is
\* held only by a user that is inside its scope (between entry and the end of
\* exit), whatever way the body ended; so with every scope ended both facets
\* are free, and no exit fails
C2_ReleasedOnEveryExit ==
    attach_calls <= 1 =>
        /\ \A p \in LockUsers :
             /\ init_lock = p =>
                  pc[p] \in {"entered_init", "await_async", "cs", "exit", "exit_init"}
             /\ async_lock = p => pc[p] \in {"cs", "exit"}
             /\ pc[p] # "release_error"
             /\ exc[p] # "RuntimeError"
        /\ (apc = "idle" /\ \A p \in LockUsers : pc[p] = "idle") =>
             init_lock = None /\ async_lock \in {None, "unlocked"}

\* after attachment a blocking scope and a cooperative scope have both ended
\* by an exception, the lock is free, and a later acquirer is inside
C2_Witness ==
    /\ attach_calls = 1
    /\ \E t \in Threads : pc[t] = "idle" /\ exc[t] = "Exception"
    /\ \E a \in Tasks : pc[a] = "idle" /\ exc[a] = "Exception"
    /\ \E t \in Threads : pc[t] = "cs"

\* the callers between the construction of their guard and the end of its __enter__
Registering == {c \in Callers : gpc[c] \in {"created", "enter_raising", "enter_added"}}

\* C3: at most one caller is between guard creation and the end of scope
\* entry, and that caller holds the submission lock
C3_RegistrationExclusive ==
    /\ Cardinality(Registering) <= 1
    /\ \A c \in Registering : pending_orders_mutex = c

\* one caller has set its order and is about to enter while another waits in
\* the constructor
C3_Witness ==
    \E c, d \in Callers :
        /\ gpc[c] = "created" /\ tag[c] # NoTag
        /\ gpc[d] = "acquiring"

\* C4: every tag in the pending set is the tag of a caller whose scope entry
\* has added it and whose scope has not been left
C4_PendingOnlyInScope ==
    \A t \in pending_orders :
        \E c \in Callers : gpc[c] \in {"enter_added", "in_scope"} /\ tag[c] = t

\* one caller left its scope by an exception and its tag is gone, another is
\* inside with its tag in the set
C4_Witness ==
    \E c, d \in Callers :
        /\ gpc[c] = "raised" /\ tag[c] \notin pending_orders
        /\ gpc[d] = "in_scope" /\ pending_orders = {tag[d]}

\* C5: a caller that enters the scope of a guard without a tag gets the
\* exception: it never reaches the body, and its steps from the construction
\* to the failure leave the pending set as it was
C5_EnterWithoutOrderFails ==
    [][\A c \in Callers :
         (tag[c] = NoTag /\ gpc[c] \in {"created", "enter_raising"} /\ gpc'[c] # gpc[c])
            => /\ gpc'[c] \in {"enter_raising", "enter_failed", "abandoned"}
               /\ pending_orders' = pending_orders]_vars

\* an entry without set_order has failed while another caller's tag is pending
C5_Witness ==
    \E c, d \in Callers :
        /\ gpc[c] = "enter_failed" /\ tag[c] = NoTag
        /\ gpc[d] = "in_scope" /\ pending_orders = {tag[d]}

\* C6: while a caller has dropped a guard it never entered, the submission
\* lock stays held by that guard: no caller waiting in acquire_order_guard
\* gets its guard, and a reconciliation waiting for the lock does not start
C6_AbandonedGuardBlocks ==
    [][\A c \in Callers :
         gpc[c] = "abandoned"
            => /\ pending_orders_mutex = c
               /\ pending_orders_mutex' = c
               /\ \A d \in Callers : gpc[d] = "acquiring" => gpc'[d] = "acquiring"
               /\ lpc = "fetch_lock" => lpc' = "fetch_lock"]_vars

\* a guard was dropped while another caller waits in the constructor and the
\* processor waits in _fetch_pending_orders
C6_Witness ==
    \E c, d \in Callers :
        /\ gpc[c] = "abandoned"
        /\ gpc[d] = "acquiring"
        /\ lpc = "fetch_lock"

\* the Order _fetch_pending_orders caches for the response resp
CachedFrom(o, resp) ==
    /\ o.id = resp.orderId
    /\ o.symbol = resp.symbol
    /\ o.side = resp.side
    /\ o.order_type = resp.type
    /\ o.status = resp.status
    /\ o.price = Float(resp.price)
    /\ o.cumulative_filled_quantity = Float(resp.executedQty)
    /\ o.cumulative_quote_qty = Float(resp.cummulativeQuoteQty)

\* C10: while a tag is retried every query so far has failed; the first
\* successful response ends the retries, after exactly failures + 1 queries,
\* and once it is cached the order cache holds, under the returned order id,
\* the Order with the fields of that response
C10_ReconcileRetries ==
    /\ lpc = "fetch_query" => queries = failures /\ order = NoOrder
    /\ lpc = "fetch_upsert" => queries = failures + 1 /\ order # NoOrder
    /\ (lpc = "fetch_next" /\ fetch_cur # NoTag) =>
          /\ queries = failures + 1
          /\ order # NoOrder
          /\ order.symbol = fetch_cur[1]
          /\ order.orderId \in DOMAIN orders
          /\ CachedFrom(orders[order.orderId], order)

\* a tag was fetched on the third query, after two failures
C10_Witness ==
    /\ lpc = "fetch_next"
    /\ fetch_cur # NoTag
    /\ failures = 2
    /\ queries = 3
    /\ order.orderId \in DOMAIN orders

\* ---- balance histories: `processed` lists, oldest first, the balance events
\* applied since the balance cache was last empty; a snapshot stands with the
\* entries it wrote
Lists(e, a) == e.kind = "snapshot" /\ \E i \in DOMAIN e.balances : e.balances[i].asset = a
Names(e, a) == e.kind = "delta" /\ e.asset = a
HistoryAssets(h) ==
    {h[i].asset : i \in {j \in DOMAIN h : h[j].kind = "delta"}}
    \cup UNION {{h[i].balances[k].asset : k \in DOMAIN h[i].balances} :
                  i \in {j \in DOMAIN h : h[j].kind = "snapshot"}}
MaxOf(S) == IF S = {} THEN 0 ELSE CHOOSE x \in S : \A y \in S : y <= x

\* the free value of the last entry of snapshot e for asset a
ListedFree(e, a) ==
    e.balances[MaxOf({i \in DOMAIN e.balances : e.balances[i].asset = a})].free

\* the cache the claim describes: the assets of the last snapshot, but those
\* a later delta names
LastSnapshotCache(h) ==
    LET s == MaxOf({i \in DOMAIN h : h[i].kind = "snapshot"})
        keys == IF s = 0 THEN {}
                ELSE {a \in HistoryAssets(h) :
                        Lists(h[s], a) /\ ~\E i \in DOMAIN h : i > s /\ Names(h[i], a)}
    IN  [a \in keys |-> ListedFree(h[s], a)]

\* the cache asset by asset: an asset is cached when the last event that
\* lists or names it is a snapshot, with the value that snapshot gives it
LastMentionCache(h) ==
    LET last(a) == MaxOf({i \in DOMAIN h : Lists(h[i], a) \/ Names(h[i], a)})
        keys == {a \in HistoryAssets(h) : h[last(a)].kind = "snapshot"}
    IN  [a \in keys |-> ListedFree(h[last(a)], a)]

\* C7 as claimed: the balance cache is the last snapshot's assets with their
\* free values, minus the assets named by later deltas
C7_LastSnapshotMinusDeltas == balances = LastSnapshotCache(processed)

\* C7 as amended: the balance cache holds exactly the assets whose last
\* mention in the history is a snapshot listing, with that listing's free
\* value (so an asset of an earlier snapshot that no later event mentions
\* stays, and a delta never adds a key)
C7_LastMentionPerAsset == balances = LastMentionCache(processed)

\* two snapshots were applied and the cache still holds an asset that only
\* the earlier one lists
C7_Witness ==
    /\ Len(processed) = 2
    /\ processed[1].kind = "snapshot"
    /\ processed[2].kind = "snapshot"
    /\ \E a \in DOMAIN balances : ~Lists(processed[2], a)

IsDelta(d) == Dispatched(d) /\ d.event_type = "balanceUpdate" /\ "asset" \in DOMAIN d

\* C8: from the dispatch of a balanceUpdate naming an asset to the end of its
\* handling, the order and ticker caches stay as they are, no exception is
\* raised, and the balance cache changes only in the step under the lock,
\* which drops the named asset and leaves every other key with its value
C8_DeltaOnlyRemoves ==
    [][(lpc = "balance" /\ IsDelta(stream_data)) =>
         /\ orders' = orders
         /\ ticker_values' = ticker_values
         /\ ticker_values_ask' = ticker_values_ask
         /\ ticker_values_bid' = ticker_values_bid
         /\ exc'[Processor] = None
         /\ balances' = IF lpc' = "end"
                          THEN [a \in DOMAIN balances \ {stream_data.asset} |-> balances[a]]
                          ELSE balances]_vars

\* a delta removed its asset from a cache that keeps another one
C8_Witness ==
    /\ lpc = "end"
    /\ IsDelta(stream_data)
    /\ Len(processed) = 2
    /\ processed[1].kind = "snapshot"
    /\ Lists(processed[1], stream_data.asset)
    /\ stream_data.asset \notin DOMAIN balances
    /\ balances # EmptyDict

\* C9 as claimed: no event ends _stream_processor; it ends only after the
\* transport reported that it is stopping
C9_LoopNeverAborts ==
    /\ lpc # "crashed"
    /\ lpc = "exited" => stopping

\* the holders that are acquiring the lock a second time
ReAcquiring == {p \in Threads \cup Tasks : pc[p] \in {"reenter", "reawait"}}

\* C11: with attach_loop called at most once, a thread that acquires the lock
\* again through the blocking interface, or a coroutine that does so through
\* the cooperative interface, while holding it, waits for a lock it holds
\* itself: no step takes it out of the second acquisition and none raises an
\* error in it
C11_NotReentrant ==
    [][\A p \in ReAcquiring :
         attach_calls <= 1 =>
            /\ p \in Threads => init_lock = p
            /\ p \in Tasks => async_lock = p
            /\ pc'[p] \in {"reenter", "reawait"}
            /\ exc'[p] = exc[p]]_vars

\* after attachment a coroutine is suspended in its second acquisition while
\* a thread waits behind it; before attachment a thread would block likewise
C11_Witness ==
    /\ attach_calls = 1
    /\ \E a \in Tasks : pc[a] = "reawait" /\ async_lock = a
    /\ \E t \in Threads : pc[t] = "await_async"

\* the callers whose scope entry has completed and whose scope is open
InScope == {c \in Callers : gpc[c] = "in_scope"}

FetchPositions == {"fetch_lock", "fetch_copy", "fetch_next", "fetch_query", "fetch_upsert"}

\* C13: reconciliation and invalidation run only for a CONNECT signal of the
\* user-data stream; when the data item of that iteration is about to be
\* dispatched every tag of the copy has been fetched and cached and the
\* balance cache is empty, and until then no data item has written a cache;
\* the handling of any other signal goes on to the data item with every
\* cache and the reconciliation state as they were
C13_ReconnectBeforeData ==
    [][/\ lpc \in FetchPositions \cup {"invalidate"} =>
            /\ IsUserDataConnect(stream_signal)
            /\ ticker_values' = ticker_values
            /\ ticker_values_ask' = ticker_values_ask
            /\ ticker_values_bid' = ticker_values_bid
            /\ processed' = <<>> \/ processed' = processed
            /\ lpc' \in FetchPositions \cup {"invalidate", "data", "crashed"}
       /\ (lpc = "data" /\ IsUserDataConnect(stream_signal)) =>
            /\ fetch_todo = {}
            /\ \A t \in pending_orders :
                 t[2] \in DOMAIN orders /\ orders[t[2]].symbol = t[1]
            /\ balances = EmptyDict
       /\ (lpc = "signal" /\ ~IsUserDataConnect(stream_signal)) =>
            /\ UNCHANGED <<cacheVars, fetchVars>>
            /\ lpc' \in {"signal", "data"}
      ]_vars

\* after an earlier ticker event, a user-data CONNECT was handled: every
\* pending tag is cached, the balance cache is empty and the data item popped
\* with the signal is about to be dispatched
C13_Witness ==
    /\ lpc = "data"
    /\ IsUserDataConnect(stream_signal)
    /\ Dispatched(stream_data)
    /\ balances = EmptyDict
    /\ pc[Processor] = "idle"
    /\ Cardinality(DOMAIN orders) = Cardinality(pending_orders)
    /\ ticker_values # EmptyDict

\* s is t or t with items appended
Extends(s, t) == Len(s) >= Len(t) /\ SubSeq(s, 1, Len(t)) = t

\* C14: while _stream_processor is inside _fetch_pending_orders it pops
\* nothing from either buffer, keeps the signal and data item it popped,
\* writes no balance or ticker cache and does not leave by the stop request;
\* it leaves a tag only with a response for it (a caught failure leads to the
\* next query of the same tag, whatever their number) and leaves the
\* reconciliation only with every tag of its copy fetched and cached, or by
\* an exception that is not caught
C14_ReconcileStallsLoop ==
    [][(lpc \in FetchPositions) =>
         /\ Extends(signal_buffer', signal_buffer)
         /\ Extends(data_buffer', data_buffer)
         /\ stream_signal' = stream_signal
         /\ stream_data' = stream_data
         /\ balances' = balances
         /\ processed' = processed
         /\ ticker_values' = ticker_values
         /\ ticker_values_ask' = ticker_values_ask
         /\ ticker_values_bid' = ticker_values_bid
         /\ lpc' \in FetchPositions \cup {"invalidate", "crashed"}
         /\ (lpc = "fetch_query" /\ lpc' # "fetch_query") =>
               \/ lpc' = "crashed"
               \/ lpc' = "fetch_upsert" /\ order' # NoOrder /\ order'.orderId = fetch_cur[2]
         /\ (lpc = "fetch_query" /\ failures' # failures) => lpc' = "fetch_query"
         /\ lpc' = "invalidate" =>
               /\ fetch_todo = {}
               /\ \A t \in pending_orders : t[2] \in DOMAIN orders]_vars

\* the client has failed twice for a tag while a data item waits in the
\* buffer and the transport has been told to stop
C14_Witness ==
    /\ lpc = "fetch_query"
    /\ failures = 2
    /\ stopping
    /\ data_buffer # <<>>
    /\ Dispatched(stream_data)

\* the event kinds _process_stream_data has a branch for
KnownKinds == BalanceKinds \cup {"executionReport", "24hrMiniTicker", "bookTicker"}

IsUnknown(d) == Dispatched(d) /\ d.event_type \notin KnownKinds

\* C15: the dispatch of a data item of an unknown kind raises nothing and
\* leaves the balance, order and ticker caches as they are, and the loop
\* goes on to its next iteration
C15_UnknownKindDropped ==
    [][(lpc \in {"data", "end"} /\ IsUnknown(stream_data)) =>
         /\ UNCHANGED cacheVars
         /\ exc'[Processor] = None
         /\ lpc' \in {lpc, IF lpc = "data" THEN "end" ELSE "top"}]_vars

\* an event of an unknown kind has been handled after a snapshot filled the
\* balance cache
C15_Witness ==
    /\ lpc = "end"
    /\ IsUnknown(stream_data)
    /\ exc[Processor] = None
    /\ balances # EmptyDict

\* C16: the stopping flag is read at the start of an iteration, before the
\* pops: the loop goes on to pop only from a check that found the transport
\* not stopping, and a check that finds it stopping ends the loop; once the
\* loop has ended nothing is popped and no cache is written; and after
\* close() the thread ends (by the check, or by an exception of a handler),
\* every reconciliation being one whose retries come to an end
C16_StopEndsLoop ==
    /\ [][/\ (lpc' = "pop" /\ lpc # "pop") => (lpc = "top" /\ ~stopping)
          /\ (lpc = "top" /\ stopping) => lpc' \in {"top", "exited"}
          /\ (lpc' = "exited" /\ lpc # "exited") => (lpc = "top" /\ stopping)
          /\ (lpc # "pop") =>
                (Extends(signal_buffer', signal_buffer) /\ Extends(data_buffer', data_buffer))
          /\ (lpc = "exited") => (lpc' = "exited" /\ UNCHANGED cacheVars)
         ]_vars
    /\ stopping ~> (lpc \in {"exited", "crashed"})

\* the loop has ended by the stopping check with a data item left in the
\* buffer and caches written before
C16_Witness ==
    /\ lpc = "exited"
    /\ stopping
    /\ data_buffer # <<>>
    /\ orders # EmptyDict

\* the Order _process_stream_data caches for the execution report r
CachedFromReport(o, r) ==
    /\ o.id = r.order_id
    /\ o.symbol = r.symbol
    /\ o.side = r.side
    /\ o.order_type = r.order_type
    /\ o.status = r.current_order_status
    /\ o.price = Float(r.order_price)
    /\ o.cumulative_filled_quantity = Float(r.cumulative_filled_quantity)
    /\ o.cumulative_quote_qty = Float(r.cumulative_quote_asset_transacted_quantity)
    /\ o.time = r.transaction_time

IsReport(d) == Dispatched(d) /\ d.event_type = "executionReport"

\* C17: no step removes an order id from the order cache; a reconciliation
\* fetch that is cached and an execution report that is handled leave, under
\* their order id, the Order built from them, whatever was cached there, and
\* every other entry as it was; no other step changes the order cache
C17_OrdersLastWriteWins ==
    [][/\ DOMAIN orders \subseteq DOMAIN orders'
       /\ (lpc = "fetch_upsert" /\ lpc' = "fetch_next") =>
            /\ order.orderId \in DOMAIN orders'
            /\ CachedFrom(orders'[order.orderId], order)
            /\ orders'[order.orderId].time = order.time
            /\ \A k \in DOMAIN orders \ {order.orderId} : orders'[k] = orders[k]
       /\ (lpc = "data" /\ lpc' = "end" /\ IsReport(stream_data)
             /\ exc'[Processor] = None) =>
            /\ stream_data.order_id \in DOMAIN orders'
            /\ CachedFromReport(orders'[stream_data.order_id], stream_data)
            /\ \A k \in DOMAIN orders \ {stream_data.order_id} : orders'[k] = orders[k]
       /\ orders' # orders =>
            \/ lpc = "fetch_upsert"
            \/ lpc = "data" /\ IsReport(stream_data)
      ]_vars

\* both pending orders were fetched on a reconnect and the execution report
\* popped with the signal has replaced the fetched entry of its order
C17_Witness ==
    /\ lpc = "end"
    /\ IsReport(stream_data)
    /\ IsUserDataConnect(stream_signal)
    /\ DOMAIN orders = {42, 43}
    /\ orders[42].status = "FILLED"
    /\ orders[43].status = "NEW"

\* the positions of a thread between _init_lock.__enter__() and _init_lock.__exit__()
HoldingInit == {"entered_init", "await_async", "cs", "exit", "exit_init"}

\* C18: a thread between its acquire and its release holds the thread facet,
\* and while it does attach_loop is not past its `with self._init_lock` and
\* the attachment state stays what it was; with attach_loop called at most
\* once, a thread inside the critical section after attachment holds the
\* cooperative facet too, its release never meets a cooperative lock that is
\* not locked, and past the first half of its release it no longer holds the
\* cooperative facet
C18_FacetsHeldAsUnit ==
    [][\A t \in Threads :
         /\ pc[t] \in HoldingInit =>
              /\ init_lock = t
              /\ apc \in {"idle", "waiting"}
              /\ (async_lock' = None) = (async_lock = None)
         /\ attach_calls <= 1 =>
              /\ pc[t] \in {"cs", "exit"} => async_lock \in {None, t}
              /\ pc[t] = "exit_init" => async_lock # t
              /\ pc'[t] # "release_error"
      ]_vars

\* attach_loop waits for the thread facet while a thread that entered before
\* attachment is about to release
C18_Witness ==
    /\ apc = "waiting"
    /\ async_lock = None
    /\ \E t \in Threads : pc[t] = "exit" /\ init_lock = t

\* C19: a caller holds the submission lock only between the construction of
\* its guard and the end of its scope entry; a scope entry that is failing
\* ends with the lock released and the pending set as it was, so a caller
\* whose entry has failed does not hold the lock against later callers or a
\* reconciliation
C19_FailedEntryReleases ==
    [][\A c \in Callers :
         /\ pending_orders_mutex = c =>
              gpc[c] \in {"created", "enter_raising", "enter_added", "abandoned"}
         /\ (gpc[c] = "enter_raising" /\ gpc'[c] # "enter_raising") =>
              /\ gpc'[c] = "enter_failed"
              /\ pending_orders_mutex = c
              /\ pending_orders_mutex' = None
              /\ pending_orders' = pending_orders
      ]_vars

\* after a caller's scope entry failed, another caller got its guard and
\* the reconciler waits for that one
C19_Witness ==
    \E c, d \in Callers :
        /\ gpc[c] = "enter_failed"
        /\ gpc[d] = "created"
        /\ pending_orders_mutex = d
        /\ lpc = "fetch_lock"

\* C20 as claimed: whatever tags the callers set, every caller inside its
\* scope has its tag in the pending set and no scope exit has failed
C20_EveryOpenScopePending ==
    \A c \in Callers :
        /\ gpc[c] = "in_scope" => tag[c] \in pending_orders
        /\ gpc[c] # "exit_failed"
====
